---- MODULE Spec2Model ----
(***************************************************************************)
(* Model of auto_qps_rule_engine_ci.py: the QPS rule engine                *)
(* (decide_new_limit), the payload builder (scrub_readonly,                *)
(* ensure_inventory, build_put_body) and the orchestrating loop of main(). *)
(*                                                                         *)
(* Values handed around by the Python code (JSON documents, None, numbers, *)
(* strings, lists, dicts) are tagged records, so that values of different  *)
(* Python types can be told apart and compared:                            *)
(*   None  [t |-> "null"]         number [t |-> "num",  n |-> Int]         *)
(*   str   [t |-> "str", s |-> _] list   [t |-> "list", l |-> Seq]         *)
(*   dict  [t |-> "dict", d |-> function from the present keys]            *)
(* Numbers are scaled integers: sRPM is carried in hundredths, real_qps in *)
(* tenths, limits and ids in units.  Over these values the float           *)
(* comparisons and math.ceil of the source agree with exact arithmetic.    *)
(* Names are sequences of one-character strings, so that str.strip,        *)
(* str.lower and str.split are computed, not assumed.                      *)
(***************************************************************************)
EXTENDS Integers, Sequences, FiniteSets, TLC

VARIABLES
    phase,           \* which entry point runs: "main", "decide" or "build"
    call,            \* the arguments of a direct call of a pure function
    ret,             \* what that call returned (or raised)
    pc,              \* main(): position in the function
    EXCLUDED_NAMES,  \* module-level set built from the environment
    creds,           \* whether EMAIL and PASSWORD are both non-empty
    summaries,       \* main(): the listing returned by list_dsps
    idx,             \* main(): index of the partner the for-loop is at
    results,         \* main(): the audit records appended so far
    updated,         \* main(): counter
    failed,          \* main(): counter
    http_log,        \* the remote calls issued so far, in order, with what each gave
    out_file,        \* the audit CSV written at the end (rows), or NoFile
    exit_code        \* value returned by main(), or NoExit

vars == <<phase, call, ret, pc, EXCLUDED_NAMES, creds, summaries, idx, results,
          updated, failed, http_log, out_file, exit_code>>

-----------------------------------------------------------------------------
(* Python values *)

None == [t |-> "null"]
Num(n) == [t |-> "num", n |-> n]
Str(s) == [t |-> "str", s |-> s]
Text(cs) == [t |-> "str", c |-> cs]  \* a str kept as its sequence of characters
List(l) == [t |-> "list", l |-> l]
Dict(d) == [t |-> "dict", d |-> d]

EmptyDict == Dict(<<>>)

IsDict(v) == v.t = "dict"
IsList(v) == v.t = "list"

\* Python truth value: None, 0, "", [] and {} are falsy.
Truthy(v) ==
    CASE v.t = "null" -> FALSE
      [] v.t = "num"  -> v.n # 0
      [] v.t = "str"  -> IF "c" \in DOMAIN v THEN v.c # <<>> ELSE v.s # ""
      [] v.t = "list" -> v.l # <<>>
      [] v.t = "dict" -> DOMAIN v.d # {}

\* a or b
PyOr(a, b) == IF Truthy(a) THEN a ELSE b

\* d.get(k) and d.get(k, default) on a dict
Get(o, k) == IF k \in DOMAIN o.d THEN o.d[k] ELSE None
GetD(o, k, default) == IF k \in DOMAIN o.d THEN o.d[k] ELSE default

\* The outcome of a call: a returned value or a raised exception.
Returned(v) == [raised |-> FALSE, value |-> v]
Raised(e) == [raised |-> TRUE, exc |-> e]

-----------------------------------------------------------------------------
(* payload hardening *)

InventoryKeys == {"app", "site", "publisher", "crid", "adomain", "displaymanager"}

arr(x) == IF IsList(x) THEN x ELSE List(<<>>)

\* ensure_inventory: inv.get / allowed.get / blocked.get are attribute lookups,
\* which raise AttributeError on a truthy value that is not a dict.
ensure_inventory(obj) ==
    LET inv == PyOr(Get(obj, "Inventory"), EmptyDict) IN
    IF ~IsDict(inv) THEN Raised("AttributeError")
    ELSE
    LET allowed == PyOr(Get(inv, "allowed"), EmptyDict)
        blocked == PyOr(Get(inv, "blocked"), EmptyDict) IN
    IF ~IsDict(allowed) \/ ~IsDict(blocked) THEN Raised("AttributeError")
    ELSE Returned(Dict([
        allowed |-> Dict([k \in InventoryKeys |-> arr(Get(allowed, k))]),
        blocked |-> Dict([k \in InventoryKeys |-> arr(Get(blocked, k))])]))

ro == {"created_at", "updated_at", "createdAt", "updatedAt", "last_update",
       "lastUpdate", "_id"}

scrub_readonly(d) == Dict([k \in (DOMAIN d.d) \ ro |-> d.d[k]])

DefaultSize == List(<<Dict([code |-> Str("string")])>>)
DefaultOperatingSystem == List(<<Dict([key |-> Str("string"), name |-> Str("string")])>>)
DefaultCountry == List(<<Dict([country_code |-> Str("str")])>>)

OverwrittenKeys == {"id", "Inventory", "Size", "OperatingSystem", "Country",
                    "blockedSsp", "qps_limit", "qps_Limit"}

build_put_body(detail, dsp_id, new_qps) ==
    LET base == scrub_readonly(detail)
        inv == ensure_inventory(base)
    IN
    IF inv.raised THEN inv
    ELSE
    LET old_data == Dict([
            id |-> Num(dsp_id),
            api_endpoint |-> GetD(base, "api_endpoint", GetD(base, "endpoint", Str(""))),
            Company |-> GetD(base, "Company", Dict([
                id |-> GetD(base, "company_id", Num(0)),
                name |-> GetD(base, "company_name", Str("")),
                api_key |-> GetD(base, "api_key", Str(""))])),
            Size |-> GetD(base, "Size", DefaultSize),
            OperatingSystem |-> GetD(base, "OperatingSystem", DefaultOperatingSystem),
            Country |-> GetD(base, "Country", DefaultCountry),
            blockedSsp |-> GetD(base, "blockedSsp", List(<<>>)),
            Inventory |-> inv.value])
        upd == Dict([k \in (DOMAIN base.d) \cup OverwrittenKeys |->
            CASE k = "id" -> Num(dsp_id)
              [] k = "Inventory" -> inv.value
              [] k = "Size" -> GetD(base, "Size", DefaultSize)
              [] k = "OperatingSystem" -> GetD(base, "OperatingSystem", DefaultOperatingSystem)
              [] k = "Country" -> GetD(base, "Country", DefaultCountry)
              [] k = "blockedSsp" -> GetD(base, "blockedSsp", List(<<>>))
              [] k = "qps_limit" -> Num(new_qps)
              [] k = "qps_Limit" -> Num(new_qps)
              [] OTHER -> base.d[k]])
    IN Returned(Dict([oldData |-> old_data, updatedData |-> upd]))

-----------------------------------------------------------------------------
(* rule engine *)

\* A sRPM literal of the source, in hundredths: Srpm(0, 30) is 0.3.
Srpm(units, hundredths) == units * 100 + hundredths

\* real_qps >= (pct / 100) * current, real_qps in tenths.
AtLeastPct(rq10, pct, current) == rq10 * 10 >= pct * current

\* The same magnitude rounded down instead of up.
CeilPct_rounding_down(current, pct) == (current * pct) \div 100

\* math.ceil(current * (pct / 100))
CeilPct(current, pct) == -((-(current * pct)) \div 100)

Min(a, b) == IF a <= b THEN a ELSE b
Max(a, b) == IF a >= b THEN a ELSE b

SET_LIMIT == 50
CAP == 30000
FLOOR == 500

\* (the reason strings are written in ASCII)
Decision(action, new_limit, reason) ==
    [action |-> action, new_limit |-> new_limit, reason |-> reason]

\* The rules taken in the order the docstring lists them (capped rule first).
decide_new_limit_docstring_order(srpm_in, real_qps_in, current_limit_in) ==
    LET srpm == PyOr(srpm_in, Num(0)).n
        real_qps == PyOr(real_qps_in, Num(0)).n
        current == PyOr(current_limit_in, Num(0)).n
    IN
    IF srpm = 0 THEN Decision("set", SET_LIMIT, "sRPM==0 -> set 50")
    ELSE IF srpm > Srpm(0, 30) /\ current > 0 /\ AtLeastPct(real_qps, 50, current)
        THEN Decision("increase", Min(CAP, CeilPct(current, 115)),
                      "sRPM>0.3 & >=50% -> +15% (cap 30000)")
    ELSE IF srpm > Srpm(3, 0) /\ current > 0 /\ AtLeastPct(real_qps, 70, current)
        THEN Decision("increase", CeilPct(current, 115), "sRPM>3 & >=70% -> +15% (no cap)")
    ELSE IF srpm < Srpm(0, 20) /\ current > 0
        THEN Decision("decrease", Max(FLOOR, CeilPct(current, 85)),
                      "sRPM<0.2 -> -15% (floor 500)")
    ELSE Decision("hold", current, "no change")

\* The rules without the "current > 0" test of the two increase rules.
decide_new_limit_no_positive_guard(srpm_in, real_qps_in, current_limit_in) ==
    LET srpm == PyOr(srpm_in, Num(0)).n
        real_qps == PyOr(real_qps_in, Num(0)).n
        current == PyOr(current_limit_in, Num(0)).n
    IN
    IF srpm = 0 THEN Decision("set", SET_LIMIT, "sRPM==0 -> set 50")
    ELSE IF srpm > Srpm(3, 0) /\ AtLeastPct(real_qps, 70, current)
        THEN Decision("increase", CeilPct(current, 115), "sRPM>3 & >=70% -> +15% (no cap)")
    ELSE IF srpm > Srpm(0, 30) /\ AtLeastPct(real_qps, 50, current)
        THEN Decision("increase", Min(CAP, CeilPct(current, 115)),
                      "sRPM>0.3 & >=50% -> +15% (cap 30000)")
    ELSE IF srpm < Srpm(0, 20) /\ current > 0
        THEN Decision("decrease", Max(FLOOR, CeilPct(current, 85)),
                      "sRPM<0.2 -> -15% (floor 500)")
    ELSE Decision("hold", current, "no change")

decide_new_limit(srpm_in, real_qps_in, current_limit_in) ==
    LET srpm == PyOr(srpm_in, Num(0)).n
        real_qps == PyOr(real_qps_in, Num(0)).n
        current == PyOr(current_limit_in, Num(0)).n
    IN
    IF srpm = 0 THEN Decision("set", SET_LIMIT, "sRPM==0 -> set 50")
    ELSE IF srpm > Srpm(3, 0) /\ current > 0 /\ AtLeastPct(real_qps, 70, current)
        THEN Decision("increase", CeilPct(current, 115), "sRPM>3 & >=70% -> +15% (no cap)")
    ELSE IF srpm > Srpm(0, 30) /\ current > 0 /\ AtLeastPct(real_qps, 50, current)
        THEN Decision("increase", Min(CAP, CeilPct(current, 115)),
                      "sRPM>0.3 & >=50% -> +15% (cap 30000)")
    ELSE IF srpm < Srpm(0, 20) /\ current > 0
        THEN Decision("decrease", Max(FLOOR, CeilPct(current, 85)),
                      "sRPM<0.2 -> -15% (floor 500)")
    ELSE Decision("hold", current, "no change")

-----------------------------------------------------------------------------
(* str methods used on partner names and on EXCLUDED_DSPS *)

UpperChars == <<"A", "B", "C", "D", "E", "F", "G", "H", "I", "J", "K", "L", "M",
                "N", "O", "P", "Q", "R", "S", "T", "U", "V", "W", "X", "Y", "Z">>
LowerChars == <<"a", "b", "c", "d", "e", "f", "g", "h", "i", "j", "k", "l", "m",
                "n", "o", "p", "q", "r", "s", "t", "u", "v", "w", "x", "y", "z">>

LowerChar(ch) ==
    IF \E k \in DOMAIN UpperChars : UpperChars[k] = ch
    THEN LowerChars[CHOOSE k \in DOMAIN UpperChars : UpperChars[k] = ch]
    ELSE ch

\* str.lower()
lower(cs) == [k \in DOMAIN cs |-> LowerChar(cs[k])]

\* str.strip(): drop leading and trailing blanks
strip(cs) ==
    LET keep == {k \in DOMAIN cs : cs[k] # " "} IN
    IF keep = {} THEN <<>>
    ELSE LET lo == CHOOSE k \in keep : \A m \in keep : k <= m
             hi == CHOOSE k \in keep : \A m \in keep : k >= m
         IN SubSeq(cs, lo, hi)

\* str.split(","): the pieces between the commas, as a set (the caller builds a set)
split(cs) ==
    LET cuts == {0, Len(cs) + 1} \cup {k \in DOMAIN cs : cs[k] = ","} IN
    {SubSeq(cs, a + 1, b - 1) : <<a, b>> \in
        {p \in cuts \X cuts : p[1] < p[2] /\ ~\E m \in cuts : p[1] < m /\ m < p[2]}}

DefaultExcluded == <<"M", "e", "d", "i", "a", ".", "N", "e", "t">>

\* EXCLUDED_NAMES as built at import from os.getenv("EXCLUDED_DSPS")
ExcludedNamesFrom(envval) ==
    {lower(strip(x)) : x \in {y \in split(PyOr(envval, Text(DefaultExcluded)).c) :
                                  strip(y) # <<>>}}

\* The exclusion test of the loop, without the case folding.
is_excluded_case_sensitive(dsp_name, excluded) == strip(dsp_name) \in excluded

is_excluded(dsp_name, excluded) == lower(strip(dsp_name)) \in excluded

-----------------------------------------------------------------------------
(* main(): the values one loop iteration computes *)

NoFile == [written |-> FALSE]
NoExit == [returned |-> FALSE]
Exit(code) == [returned |-> TRUE, code |-> code]
NotCalled == [called |-> FALSE]

S_dsp_id(s) == Get(s, "id").n
S_dsp_name(s) == PyOr(GetD(s, "name", Text(<<>>)), Text(<<>>)).c
S_srpm(s) == PyOr(Get(s, "sRPM"), Num(0)).n

CurrentLimitOf(detail) ==
    PyOr(PyOr(Get(detail, "qps_limit"), Get(detail, "qps_Limit")), Num(0)).n

RealQpsOf(detail, s) ==
    PyOr(PyOr(Get(detail, "real_qps"), Get(s, "real_qps")), Num(0)).n

DecisionOf(detail, s) ==
    decide_new_limit(Num(S_srpm(s)), Num(RealQpsOf(detail, s)), Num(CurrentLimitOf(detail)))

\* the test guarding the update (line 195)
needs_update(action, new_limit, current_limit) ==
    action # "hold" /\ new_limit # current_limit

NeedsUpdate(detail, s) ==
    needs_update(DecisionOf(detail, s).action, DecisionOf(detail, s).new_limit,
                 CurrentLimitOf(detail))

StatusText(code) ==
    CASE code = 200 -> "200" [] code = 299 -> "299" [] code = 300 -> "300"

EvaluatedRecord(detail, s, status, http_status, resp_text) ==
    [dsp_id |-> S_dsp_id(s), name |-> S_dsp_name(s), sRPM |-> S_srpm(s),
     real_qps |-> RealQpsOf(detail, s), current_limit |-> CurrentLimitOf(detail),
     action |-> DecisionOf(detail, s).action,
     new_limit |-> DecisionOf(detail, s).new_limit,
     reason |-> DecisionOf(detail, s).reason,
     status |-> status, http_status |-> http_status, response |-> resp_text]

\* csv.DictWriter over the union of the records' keys; a missing key is written "".
CsvRows(recs) ==
    LET keys == UNION {DOMAIN recs[k] : k \in DOMAIN recs} IN
    [written |-> TRUE,
     rows |-> [k \in DOMAIN recs |->
                  [f \in keys |-> IF f \in DOMAIN recs[k] THEN recs[k][f] ELSE ""]]]

-----------------------------------------------------------------------------
(* bounds and the inputs drawn within them *)

MaxPartners == 2       \* longest listing list_dsps returns
MaxSmallLimit == 10    \* every current limit in -MaxSmallLimit..MaxSmallLimit is tried

Absent == [t |-> "absent"]

\* a dict holding the fields of f that are not Absent
FromFields(f) == Dict([k \in {j \in DOMAIN f : f[j] # Absent} |-> f[k]])

\* --- direct calls of decide_new_limit
SrpmInputs == {None} \cup {Num(x) : x \in {-100, 0, 10, 19, 20, 25, 30, 31, 100, 300, 301, 400}}

LimitValues == (-MaxSmallLimit .. MaxSmallLimit) \cup
    {499, 500, 501, 550, 588, 589, 600, 1000, 20000, 26086, 26087, 27000,
     29999, 30000, 30001, 40000}
LimitInputs == {None} \cup {Num(c) : c \in LimitValues}

\* real_qps (tenths) around the 50% and 70% thresholds of the limit
RealQpsInputs(c) ==
    {None, Num(0), Num(140000), Num(150000)} \cup
    (IF c.t = "num" /\ c.n > 0
     THEN {Num(x) : x \in {5 * c.n - 1, 5 * c.n, 7 * c.n - 1, 7 * c.n, 10 * c.n}}
     ELSE {})

\* --- direct calls of build_put_body
ReadOnlyInputs == {
    [created_at |-> Absent, updatedAt |-> Absent, _id |-> Absent],
    [created_at |-> Str("2025-10-01"), updatedAt |-> Absent, _id |-> Absent],
    [created_at |-> Str("2025-10-01"), updatedAt |-> Str("2025-10-02"), _id |-> Str("65a")]}

CompanyInputs == {
    Absent,
    Dict([id |-> Num(3), name |-> Str("co")]),
    Dict([id |-> Num(3), name |-> Str("co"), created_at |-> Str("2025-10-01")])}

SizeInputs == {Absent, None, Str("any"), List(<<Dict([code |-> Str("300x250")])>>)}

InventoryInputs == {
    Absent, None, EmptyDict, List(<<>>),
    Dict([allowed |-> Dict([app |-> List(<<Str("a")>>), site |-> None, crid |-> Str("x")])]),
    Dict([allowed |-> None, blocked |-> Dict([app |-> List(<<>>), adomain |-> List(<<Str("b")>>)])]),
    Dict([allowed |-> List(<<Str("a")>>)]),
    Dict([blocked |-> Str("x")]),
    Str("x"),
    List(<<Str("a")>>)}

DetailInputs ==
    {FromFields([created_at |-> r.created_at, updatedAt |-> r.updatedAt, _id |-> r._id,
                 Company |-> co, company_id |-> cid, Size |-> sz,
                 OperatingSystem |-> os, Country |-> cn, blockedSsp |-> bs,
                 Inventory |-> inv, qps_limit |-> ql]) :
        r \in ReadOnlyInputs, co \in CompanyInputs, cid \in {Absent, Num(9)},
        sz \in SizeInputs, os \in {Absent, None}, cn \in {Absent, List(<<>>)},
        bs \in {Absent, None, List(<<Num(1)>>)}, inv \in InventoryInputs,
        ql \in {Absent, Num(1000)}}

NewQpsInputs == {50, 1150}

\* --- the environment of main()
AcmeName == <<"A", "c", "m", "e">>
MediaNetSpelledOtherwise == <<" ", "m", "E", "D", "I", "A", ".", "n", "e", "t", " ">>

\* os.getenv("EXCLUDED_DSPS"): unset, empty, or " ACME ,, "
EnvInputs == {None, Text(<<>>), Text(<<" ", "A", "C", "M", "E", " ", ",", ",", " ">>)}

SummaryInputs == {
    FromFields([name |-> Text(DefaultExcluded), sRPM |-> Num(400), real_qps |-> Absent]),
    FromFields([name |-> Text(MediaNetSpelledOtherwise), sRPM |-> Absent, real_qps |-> Absent]),
    FromFields([name |-> Text(AcmeName), sRPM |-> None, real_qps |-> Absent]),
    FromFields([name |-> Text(AcmeName), sRPM |-> Num(100), real_qps |-> Num(300000)]),
    FromFields([name |-> None, sRPM |-> Num(10), real_qps |-> Absent]),
    FromFields([name |-> Text(AcmeName), sRPM |-> Num(400), real_qps |-> Num(300000)])}

WithId(s, n) == Dict([k \in DOMAIN s.d \cup {"id"} |-> IF k = "id" THEN Num(n) ELSE s.d[k]])

ListingInputs ==
    UNION {{[k \in 1..n |-> WithId(f[k], 100 + k)] : f \in [1..n -> SummaryInputs]} :
           n \in 0..MaxPartners}

\* what get_detail may return
MainDetailInputs == {
    Dict([qps_limit |-> Num(1000), real_qps |-> Num(10000), created_at |-> Str("2025-10-01")]),
    Dict([qps_Limit |-> Num(30000), Company |-> Dict([id |-> Num(3), updatedAt |-> Str("2025-10-02")])]),
    Dict([qps_limit |-> Num(50), qps_Limit |-> Num(70)]),
    Dict([qps_limit |-> Num(-5), real_qps |-> Num(0)]),
    Dict([qps_limit |-> Num(1000), real_qps |-> Num(10000), Inventory |-> Str("x")]),
    Dict([qps_limit |-> Num(0), qps_Limit |-> Num(600), Size |-> None])}

\* r.status_code: both ends of the 2xx range and the first code past it
StatusCodes == {200, 299, 300}

-----------------------------------------------------------------------------
(* initial states: one per entry point and input *)

MainIdle ==
    /\ pc = "idle" /\ EXCLUDED_NAMES = {} /\ creds = FALSE /\ summaries = <<>>
    /\ idx = 0 /\ results = <<>> /\ updated = 0 /\ failed = 0 /\ http_log = <<>>
    /\ out_file = NoFile /\ exit_code = NoExit

InitMain ==
    /\ phase = "main"
    /\ call = [fn |-> "main"]
    /\ ret = NotCalled
    /\ pc = "start"
    /\ \E e \in EnvInputs : EXCLUDED_NAMES = ExcludedNamesFrom(e)
    /\ creds \in BOOLEAN
    /\ summaries = <<>> /\ idx = 0
    /\ results = <<>> /\ updated = 0 /\ failed = 0
    /\ http_log = <<>> /\ out_file = NoFile /\ exit_code = NoExit

InitDecide ==
    /\ phase = "decide"
    /\ \E s \in SrpmInputs, c \in LimitInputs : \E q \in RealQpsInputs(c) :
          call = [fn |-> "decide_new_limit", srpm |-> s, real_qps |-> q, current_limit |-> c]
    /\ ret = NotCalled
    /\ MainIdle

InitBuild ==
    /\ phase = "build"
    /\ \E d \in DetailInputs, q \in NewQpsInputs :
          call = [fn |-> "build_put_body", detail |-> d, dsp_id |-> 7, new_qps |-> q]
    /\ ret = NotCalled
    /\ MainIdle

Init == InitMain \/ InitDecide \/ InitBuild

-----------------------------------------------------------------------------
(* direct calls of the pure functions *)

mainvars == <<pc, EXCLUDED_NAMES, creds, summaries, idx, results, updated, failed,
              http_log, out_file, exit_code>>

DecideCall ==
    /\ phase = "decide" /\ ret = NotCalled
    /\ ret' = Returned(decide_new_limit(call.srpm, call.real_qps, call.current_limit))
    /\ UNCHANGED <<phase, call, mainvars>>

BuildCall ==
    /\ phase = "build" /\ ret = NotCalled
    /\ ret' = build_put_body(call.detail, call.dsp_id, call.new_qps)
    /\ UNCHANGED <<phase, call, mainvars>>

-----------------------------------------------------------------------------
(* main() *)

\* lines 147-149
MainMissingCreds ==
    /\ phase = "main" /\ pc = "start" /\ ~creds
    /\ pc' = "done" /\ exit_code' = Exit(2)
    /\ UNCHANGED <<phase, call, ret, EXCLUDED_NAMES, creds, summaries, idx, results,
                   updated, failed, http_log, out_file>>

\* line 152, auth_token raises: the exception leaves main()
MainAuthFailed ==
    /\ phase = "main" /\ pc = "start" /\ creds
    /\ http_log' = Append(http_log, [op |-> "auth"])
    /\ pc' = "raised"
    /\ UNCHANGED <<phase, call, ret, EXCLUDED_NAMES, creds, summaries, idx, results,
                   updated, failed, out_file, exit_code>>

MainAuthOk ==
    /\ phase = "main" /\ pc = "start" /\ creds
    /\ http_log' = Append(http_log, [op |-> "auth"])
    /\ pc' = "authed"
    /\ UNCHANGED <<phase, call, ret, EXCLUDED_NAMES, creds, summaries, idx, results,
                   updated, failed, out_file, exit_code>>

\* line 156, list_dsps raises
MainListFailed ==
    /\ phase = "main" /\ pc = "authed"
    /\ http_log' = Append(http_log, [op |-> "list"])
    /\ pc' = "raised"
    /\ UNCHANGED <<phase, call, ret, EXCLUDED_NAMES, creds, summaries, idx, results,
                   updated, failed, out_file, exit_code>>

\* lines 156-161
MainListOk ==
    /\ phase = "main" /\ pc = "authed"
    /\ \E listing \in ListingInputs : summaries' = listing
    /\ http_log' = Append(http_log, [op |-> "list"])
    /\ results' = <<>> /\ updated' = 0 /\ failed' = 0
    /\ idx' = 1
    /\ pc' = "loop"
    /\ UNCHANGED <<phase, call, ret, EXCLUDED_NAMES, creds, out_file, exit_code>>

InLoop == phase = "main" /\ pc = "loop" /\ idx <= Len(summaries)

\* lines 164-177
LoopExcluded ==
    /\ InLoop
    /\ LET s == summaries[idx] IN
       /\ is_excluded(S_dsp_name(s), EXCLUDED_NAMES)
       /\ results' = Append(results,
              [dsp_id |-> S_dsp_id(s), name |-> S_dsp_name(s), sRPM |-> S_srpm(s),
               status |-> "skipped_excluded"])
    /\ idx' = idx + 1
    /\ UNCHANGED <<phase, call, ret, pc, EXCLUDED_NAMES, creds, summaries, updated,
                   failed, http_log, out_file, exit_code>>

\* lines 180-187, get_detail raises
LoopDetailFailed ==
    /\ InLoop
    /\ LET s == summaries[idx] IN
       /\ ~is_excluded(S_dsp_name(s), EXCLUDED_NAMES)
       /\ http_log' = Append(http_log, [op |-> "get_detail", id |-> S_dsp_id(s),
                                         result |-> Raised("RuntimeError")])
       /\ failed' = failed + 1
       /\ results' = Append(results,
              [dsp_id |-> S_dsp_id(s), name |-> S_dsp_name(s),
               error |-> "detail_get_failed"])
    /\ idx' = idx + 1
    /\ UNCHANGED <<phase, call, ret, pc, EXCLUDED_NAMES, creds, summaries, updated,
                   out_file, exit_code>>

\* lines 180-217, get_detail returns and the guard of line 195 is false
LoopSkipped ==
    /\ InLoop
    /\ LET s == summaries[idx] IN
       /\ ~is_excluded(S_dsp_name(s), EXCLUDED_NAMES)
       /\ \E detail \in MainDetailInputs :
            /\ ~NeedsUpdate(detail, s)
            /\ http_log' = Append(http_log, [op |-> "get_detail", id |-> S_dsp_id(s),
                                              result |-> Returned(detail)])
            /\ results' = Append(results, EvaluatedRecord(detail, s, "skipped", "", ""))
    /\ idx' = idx + 1
    /\ UNCHANGED <<phase, call, ret, pc, EXCLUDED_NAMES, creds, summaries, updated,
                   failed, out_file, exit_code>>

\* lines 180-217, the guard of line 195 is true and the update is sent
LoopUpdate ==
    /\ InLoop
    /\ LET s == summaries[idx] IN
       /\ ~is_excluded(S_dsp_name(s), EXCLUDED_NAMES)
       /\ \E detail \in MainDetailInputs, code \in StatusCodes :
            LET payload == build_put_body(detail, S_dsp_id(s), DecisionOf(detail, s).new_limit)
                ok == 200 <= code /\ code < 300
            IN
            /\ NeedsUpdate(detail, s)
            /\ ~payload.raised
            /\ http_log' = http_log \o
                 <<[op |-> "get_detail", id |-> S_dsp_id(s), result |-> Returned(detail)],
                   [op |-> "put_update", id |-> S_dsp_id(s), payload |-> payload.value,
                    status_code |-> code]>>
            /\ updated' = IF ok THEN updated + 1 ELSE updated
            /\ failed' = IF ok THEN failed ELSE failed + 1
            /\ results' = Append(results,
                 EvaluatedRecord(detail, s, IF ok THEN "updated" ELSE "failed",
                                 StatusText(code), "body"))
    /\ idx' = idx + 1
    /\ UNCHANGED <<phase, call, ret, pc, EXCLUDED_NAMES, creds, summaries, out_file,
                   exit_code>>

\* line 196, build_put_body raises: nothing catches it, the exception leaves main()
LoopBuildRaised ==
    /\ InLoop
    /\ LET s == summaries[idx] IN
       /\ ~is_excluded(S_dsp_name(s), EXCLUDED_NAMES)
       /\ \E detail \in MainDetailInputs :
            /\ NeedsUpdate(detail, s)
            /\ build_put_body(detail, S_dsp_id(s), DecisionOf(detail, s).new_limit).raised
            /\ http_log' = Append(http_log, [op |-> "get_detail", id |-> S_dsp_id(s),
                                              result |-> Returned(detail)])
    /\ pc' = "raised"
    /\ UNCHANGED <<phase, call, ret, EXCLUDED_NAMES, creds, summaries, idx, results,
                   updated, failed, out_file, exit_code>>

\* lines 221-234
MainFinish ==
    /\ phase = "main" /\ pc = "loop" /\ idx > Len(summaries)
    /\ out_file' = IF results # <<>> THEN CsvRows(results) ELSE NoFile
    /\ exit_code' = Exit(0)
    /\ pc' = "done"
    /\ UNCHANGED <<phase, call, ret, EXCLUDED_NAMES, creds, summaries, idx, results,
                   updated, failed, http_log>>

Next ==
    \/ DecideCall
    \/ BuildCall
    \/ MainMissingCreds
    \/ MainAuthFailed
    \/ MainAuthOk
    \/ MainListFailed
    \/ MainListOk
    \/ LoopExcluded
    \/ LoopDetailFailed
    \/ LoopSkipped
    \/ LoopUpdate
    \/ LoopBuildRaised
    \/ MainFinish

Spec == Init /\ [][Next]_vars

-----------------------------------------------------------------------------
(* Properties of the rule engine, stated over a direct call *)

Decided == phase = "decide" /\ ret # NotCalled

\* the arguments as the claims read them: absent or null counts as 0
ArgOrZero(v) == IF v = None THEN 0 ELSE v.n
ArgSrpm == ArgOrZero(call.srpm)            \* hundredths
ArgRealQps == ArgOrZero(call.real_qps)     \* tenths
ArgCurrent == ArgOrZero(call.current_limit)

\* the least integer not below current * pct / 100
LeastIntegerAtLeast(current, pct) ==
    CHOOSE k \in ((current * pct) \div 100 - 1) .. ((current * pct) \div 100 + 1) :
        100 * k >= current * pct /\ 100 * (k - 1) < current * pct

Rule1 == ArgSrpm = 0
Rule2 == ArgSrpm > 300 /\ ArgCurrent > 0 /\ ArgRealQps >= 7 * ArgCurrent
Rule3 == ArgSrpm > 30 /\ ArgCurrent > 0 /\ ArgRealQps >= 5 * ArgCurrent
Rule4 == ArgSrpm < 20 /\ ArgCurrent > 0

C10_Original ==
    Decided /\ ArgCurrent > 0 =>
        /\ ret.value.action = "increase" => ret.value.new_limit >= ArgCurrent + 1
        /\ ret.value.action = "decrease" => ret.value.new_limit <= ArgCurrent - 1

\* C10 amended: an increase moves the limit up by at least one unit when
\* currentLimit < 30000 or the uncapped rule (sRPM > 3, realQps >= 70%) fired, and
\* a decrease moves it down by at least one unit when currentLimit > 500; a capped
\* increase of a limit >= 30000 returns 30000 and a decrease of a limit <= 500
\* returns 500.
C10_MovesWithinCapAndFloor ==
    Decided /\ ArgCurrent > 0 =>
        /\ ret.value.action = "increase" /\ (ArgCurrent < 30000 \/ Rule2) =>
              ret.value.new_limit >= ArgCurrent + 1
        /\ ret.value.action = "increase" /\ ArgCurrent >= 30000 /\ ~Rule2 =>
              ret.value.new_limit = 30000
        /\ ret.value.action = "decrease" /\ ArgCurrent > 500 =>
              ret.value.new_limit <= ArgCurrent - 1
        /\ ret.value.action = "decrease" /\ ArgCurrent <= 500 =>
              ret.value.new_limit = 500

\* a decrease just above the floor that moved down by one unit
C10_Witness ==
    /\ Decided /\ ret.value.action = "decrease"
    /\ ArgCurrent = 501 /\ ret.value.new_limit = 500

\* C6 as stated: for every sRPM, realQps and integer currentLimit the returned
\* newLimit is non-negative, and so is every new_limit main() writes to an audit
\* record or to an update payload.
C6_Original ==
    /\ Decided => ret.value.new_limit >= 0
    /\ phase = "main" =>
         /\ \A k \in DOMAIN results :
              "new_limit" \in DOMAIN results[k] => results[k].new_limit >= 0
         /\ \A j \in DOMAIN http_log : http_log[j].op = "put_update" =>
              http_log[j].payload.d.updatedData.d.qps_limit.n >= 0

\* C6 amended: for every non-negative currentLimit the returned newLimit is a
\* non-negative integer; a negative newLimit is returned only as (hold,
\* currentLimit) for a negative currentLimit; main() writes a negative new_limit
\* only to the audit record of such a held (skipped) partner and never to an
\* update payload.
C6_NonNegativeUnlessHeldNegative ==
    /\ Decided =>
         /\ ArgCurrent >= 0 => ret.value.new_limit >= 0
         /\ ret.value.new_limit < 0 =>
              ret.value.action = "hold" /\ ret.value.new_limit = ArgCurrent
    /\ phase = "main" =>
         /\ \A k \in DOMAIN results : "new_limit" \in DOMAIN results[k] =>
              /\ results[k].current_limit >= 0 => results[k].new_limit >= 0
              /\ results[k].new_limit < 0 =>
                   /\ results[k].action = "hold"
                   /\ results[k].status = "skipped"
                   /\ results[k].new_limit = results[k].current_limit
         /\ \A j \in DOMAIN http_log : http_log[j].op = "put_update" =>
              /\ http_log[j].payload.d.updatedData.d.qps_limit.n >= 0
              /\ http_log[j].payload.d.updatedData.d.qps_Limit.n >= 0

\* a finished run that submitted a payload and held a partner whose limit is negative
C6_Witness ==
    /\ phase = "main" /\ pc = "done"
    /\ \E j \in DOMAIN http_log :
         /\ http_log[j].op = "put_update"
         /\ http_log[j].payload.d.updatedData.d.qps_limit.n >= 0
    /\ \E k \in DOMAIN results :
         /\ "new_limit" \in DOMAIN results[k]
         /\ results[k].new_limit < 0 /\ results[k].action = "hold"

-----------------------------------------------------------------------------
(* Properties of main() *)

\* the remote calls made for one partner id
CallsFor(op, id) == {j \in DOMAIN http_log : http_log[j].op = op /\ http_log[j].id = id}

\* the partner's name as a string (a missing or null name is "")
NameOf(s) == IF "name" \in DOMAIN s.d /\ s.d.name # None THEN s.d.name.c ELSE <<>>

NameIsExcluded(s) == lower(strip(NameOf(s))) \in EXCLUDED_NAMES

StatusIs(k, st) == "status" \in DOMAIN results[k] /\ results[k].status = st

\* C2: a partner whose trimmed, case-folded name is in the exclusion set never
\* gets a detail fetch, a payload or an update, and ends skipped_excluded with no
\* decision fields.
C2_ExcludedNeverFetched ==
    phase = "main" =>
        \A k \in DOMAIN summaries : NameIsExcluded(summaries[k]) =>
            /\ CallsFor("get_detail", summaries[k].d.id.n) = {}
            /\ CallsFor("put_update", summaries[k].d.id.n) = {}
            /\ k < idx =>
                 /\ results[k].dsp_id = summaries[k].d.id.n
                 /\ StatusIs(k, "skipped_excluded")
                 /\ DOMAIN results[k] \cap {"action", "new_limit", "current_limit"} = {}

\* a finished run with a partner excluded under another spelling of the name and
\* another partner that was fetched
C2_Witness ==
    /\ phase = "main" /\ pc = "done"
    /\ \E k \in DOMAIN summaries :
         /\ NameOf(summaries[k]) = MediaNetSpelledOtherwise
         /\ StatusIs(k, "skipped_excluded")
    /\ \E j \in DOMAIN http_log : http_log[j].op = "get_detail"

\* main() is past partner k: the loop moved on, or main() ended
PastPartner(k) == k < idx \/ pc \in {"done", "raised"}

\* C1 as stated: for a partner whose detail fetch succeeded, no update is
\* submitted when the action is hold or the new limit equals the current limit
\* (the partner ends skipped), and exactly one update is submitted otherwise.
C1_Original ==
    phase = "main" =>
        \A k \in DOMAIN summaries :
            \A j \in CallsFor("get_detail", summaries[k].d.id.n) :
                ~http_log[j].result.raised /\ PastPartner(k) =>
                    LET detail == http_log[j].result.value
                        d == DecisionOf(detail, summaries[k])
                        puts == CallsFor("put_update", summaries[k].d.id.n)
                    IN
                    IF d.action = "hold" \/ d.new_limit = CurrentLimitOf(detail)
                    THEN puts = {} /\ (k < idx => StatusIs(k, "skipped"))
                    ELSE Cardinality(puts) = 1

\* C3 as stated: when a run completes, every listed partner has exactly one audit
\* record carrying a status among updated, failed, skipped, skipped_excluded:
\* skipped_excluded when excluded, failed (with the error, without decision
\* fields) when the detail fetch failed, failed for a non-2xx update, updated for
\* a 2xx update, skipped otherwise; the failed and updated counts equal the
\* numbers of records with those statuses.
C3_Original ==
    phase = "main" /\ pc = "done" /\ exit_code = Exit(0) =>
        /\ Len(results) = Len(summaries)
        /\ \A k \in DOMAIN results :
             LET id == summaries[k].d.id.n
                 gets == CallsFor("get_detail", id)
                 puts == CallsFor("put_update", id)
             IN
             /\ results[k].dsp_id = id
             /\ "status" \in DOMAIN results[k]
             /\ results[k].status \in {"updated", "failed", "skipped", "skipped_excluded"}
             /\ NameIsExcluded(summaries[k]) <=> results[k].status = "skipped_excluded"
             /\ (\E j \in gets : http_log[j].result.raised) =>
                  /\ results[k].status = "failed"
                  /\ "error" \in DOMAIN results[k]
                  /\ "action" \notin DOMAIN results[k]
             /\ \A j \in puts :
                  results[k].status =
                     IF 200 <= http_log[j].status_code /\ http_log[j].status_code < 300
                     THEN "updated" ELSE "failed"
             /\ (\E j \in gets : ~http_log[j].result.raised) /\ puts = {} =>
                  results[k].status = "skipped"
        /\ failed = Cardinality({k \in DOMAIN results : StatusIs(k, "failed")})
        /\ updated = Cardinality({k \in DOMAIN results : StatusIs(k, "updated")})

\* C4 as stated: once authentication and the listing have succeeded, the run goes
\* through every listed partner in listing order, whatever fails for one of them,
\* writes the audit and returns 0.  Stated on the runs that have ended: main()
\* has nowhere to go from "done" or "raised", so a run that ends anywhere but in
\* "done" with every partner recorded never reaches what the claim promises.
C4_Original ==
    phase = "main" /\ idx >= 1 /\ pc \in {"done", "raised"} =>
        /\ pc = "done"
        /\ exit_code = Exit(0)
        /\ Len(results) = Len(summaries)
        /\ \A k \in DOMAIN results : results[k].dsp_id = summaries[k].d.id.n
        /\ results # <<>> => out_file.written

-----------------------------------------------------------------------------
(* Properties of the payload builder, stated over a direct call *)

Built == phase = "build" /\ ret # NotCalled

RECURSIVE ContainsReadOnlyKey(_)
ContainsReadOnlyKey(v) ==
    CASE v.t = "dict" ->
            \/ DOMAIN v.d \cap ro # {}
            \/ \E k \in DOMAIN v.d : ContainsReadOnlyKey(v.d[k])
      [] v.t = "list" -> \E k \in DOMAIN v.l : ContainsReadOnlyKey(v.l[k])
      [] OTHER -> FALSE

\* C7 as stated: the payload holds none of the read-only keys anywhere in oldData
\* or updatedData, at the top level or inside a nested sub-object.
C7_Original ==
    Built /\ ~ret.raised =>
        /\ ~ContainsReadOnlyKey(ret.value.d.oldData)
        /\ ~ContainsReadOnlyKey(ret.value.d.updatedData)

SixLists(v) ==
    /\ IsDict(v)
    /\ DOMAIN v.d = {"app", "site", "publisher", "crid", "adomain", "displaymanager"}
    /\ \A k \in DOMAIN v.d : IsList(v.d[k])

\* C8 as stated: whatever is absent, null or of the wrong shape in the detail
\* record, the updatedData returned holds Inventory with allowed and blocked each
\* made of the six lists, Size, OperatingSystem and Country each a list (the
\* placeholder when the source had none), blockedSsp a list, these five fields
\* equal to those of oldData, and qps_limit and qps_Limit equal to the new limit.
C8_Original ==
    Built /\ ~ret.raised =>
        LET u == ret.value.d.updatedData.d
            o == ret.value.d.oldData.d
            src == call.detail.d
        IN
        /\ IsDict(u.Inventory)
        /\ DOMAIN u.Inventory.d = {"allowed", "blocked"}
        /\ SixLists(u.Inventory.d.allowed) /\ SixLists(u.Inventory.d.blocked)
        /\ IsList(u.Size) /\ IsList(u.OperatingSystem) /\ IsList(u.Country)
        /\ IsList(u.blockedSsp)
        /\ "Size" \notin DOMAIN src => u.Size = DefaultSize
        /\ "OperatingSystem" \notin DOMAIN src => u.OperatingSystem = DefaultOperatingSystem
        /\ "Country" \notin DOMAIN src => u.Country = DefaultCountry
        /\ \A f \in {"Inventory", "Size", "OperatingSystem", "Country", "blockedSsp"} :
             u[f] = o[f]
        /\ u.qps_limit = Num(call.new_qps) /\ u.qps_Limit = Num(call.new_qps)

\* C9 as stated: decide_new_limit and build_put_body return a result and raise
\* no error for every input, malformed nested shapes included.
C9_Original ==
    /\ Decided => ~ret.raised
    /\ Built => ~ret.raised

====
